---- MODULE Spec2Model ----
(***************************************************************************)
(* The ledger engine of blkchn/blockchain.py (class Blockchain) driven by  *)
(* the request handlers of app/app.py.                                     *)
(*                                                                         *)
(* Python lists are objects: new_block stores the list object bound to     *)
(* self.current_transactions inside the block it appends, so the pool and  *)
(* the 'transactions' entry of that block are one object until the next    *)
(* rebinding.  The field `shared` of the engine records exactly that:      *)
(* shared = TRUE iff self.current_transactions is the very list object     *)
(* stored as self.chain[-1]['transactions'].                               *)
(*                                                                         *)
(* SHA-256 is modelled in two parts.  hash(block) is the canonical         *)
(* serialisation itself (keys in sorted order), i.e. a collision-free      *)
(* digest.  The digest prefix that valid_proof inspects is a number in     *)
(* 0 .. Difficulty-1 computed from the guess string; prefix 0 stands for   *)
(* '0000'.                                                                 *)
(***************************************************************************)
EXTENDS Integers, Sequences, FiniteSets, TLC

VARIABLES
    blockchain,   \* the engine of this node (app.py: blockchain = Blockchain())
    promised,     \* what submit returned for each transaction now pending
    resolves,     \* number of resolve requests served
    result,       \* the last request served: its inputs and its outputs
    requests,     \* the mine requests in progress, one per server thread
    peer          \* the engine of another node that runs the same program

vars == <<blockchain, promised, resolves, result, requests, peer>>

-----------------------------------------------------------------------------
(* Bounds of the model *)

MaxChain == 3        \* mine is taken while the local chain has fewer blocks
MaxPool == 1         \* submit is taken while fewer transactions are pending
MaxResolves == 1     \* number of resolve requests in one behaviour
Difficulty == 3      \* number of digest prefixes, one of which is '0000'

Times == {0}                     \* values time() returns on this node
Amounts == {5}                   \* amounts of submitted transactions
Addrs == {"p1", "p2"}            \* peer addresses
Workers == {"w1", "w2"}          \* threads of the server that serve requests

-----------------------------------------------------------------------------
(* Values *)

GenesisProof == 100
GenesisPreviousHash == <<"1">>
None == <<>>

Reward == [sender |-> "0", recipient |-> "node_identifier", amount |-> 1]

SubmittedTxs == {[sender |-> "alice", recipient |-> "bob", amount |-> a] : a \in Amounts}

-----------------------------------------------------------------------------
(* Hasher *)

\* json.dumps(block, sort_keys=True) hashed by SHA-256: the fields in the
\* order created_at, index, previous_hash, proof, transactions.
hash(block) ==
    <<block.created_at, block.index, block.previous_hash, block.proof, block.transactions>>

RECURSIVE DecStr(_)
\* str(n) of a non-negative integer, as the sequence of its decimal digits
DecStr(n) == IF n < 10 THEN <<n>> ELSE Append(DecStr(n \div 10), n % 10)

RECURSIVE TxsWeight(_)
TxsWeight(txs) ==
    IF txs = <<>> THEN 0
    ELSE 1 + Head(txs).amount + (IF Head(txs).sender = "0" THEN 0 ELSE 1) + 2 * TxsWeight(Tail(txs))

RECURSIVE HexWeight(_)
\* a number standing for the characters of a hex digest
HexWeight(h) ==
    IF Len(h) # 5 THEN Len(h)
    ELSE h[1] + 2 * h[2] + HexWeight(h[3]) + h[4] + TxsWeight(h[5])

RECURSIVE DigitsWeight(_, _)
DigitsWeight(digits, acc) ==
    IF digits = <<>> THEN acc
    ELSE DigitsWeight(Tail(digits), (10 * acc + Head(digits)) % Difficulty)

\* sha256(guess).hexdigest()[:4], as a number in 0 .. Difficulty-1
DigestPrefix(digits, last_hash) ==
    (DigitsWeight(digits, 0) + HexWeight(last_hash)) % Difficulty

\* guess = f'{last_proof}{proof}{last_hash}'; prefix == '0000'
valid_proof(last_proof, proof, last_hash) ==
    DigestPrefix(DecStr(last_proof) \o DecStr(proof), last_hash) = 0

RECURSIVE ProofSearch(_, _)
ProofSearch(last_block, proof) ==
    IF valid_proof(last_block.proof, proof, hash(last_block)) THEN proof
    ELSE ProofSearch(last_block, proof + 1)

\* a search that starts at 1 instead of 0
proof_of_work_from_one(last_block) == ProofSearch(last_block, 1)

proof_of_work(last_block) == ProofSearch(last_block, 0)

-----------------------------------------------------------------------------
(* Ledger and pool *)

last_block(self) == self.chain[Len(self.chain)]

\* Blockchain.new_transaction: the new engine state; the call returns
\* last_block['index'] + 1 (new_transaction_returns).
new_transaction(self, transaction) ==
    [self EXCEPT
        !.current_transactions = Append(@, transaction),
        !.chain = IF self.shared
                  THEN [@ EXCEPT ![Len(@)].transactions = Append(@, transaction)]
                  ELSE @]

new_transaction_returns(self, transaction) ==
    last_block(new_transaction(self, transaction)).index + 1

\* new_block numbering blocks from 0: the length before the append as index
new_block_index_from_zero(self, proof, previous_hash, t) ==
    LET current_transactions == <<>>
        block == [index |-> Len(self.chain),
                  created_at |-> t,
                  transactions |-> current_transactions,
                  proof |-> proof,
                  previous_hash |-> IF previous_hash # <<>> THEN previous_hash
                                    ELSE hash(last_block(self))]
    IN  [self EXCEPT
            !.current_transactions = current_transactions,
            !.chain = Append(@, block),
            !.shared = TRUE]

\* Blockchain.new_block with time() = t
new_block(self, proof, previous_hash, t) ==
    LET current_transactions == <<>>
        block == [index |-> Len(self.chain) + 1,
                  created_at |-> t,
                  transactions |-> current_transactions,
                  proof |-> proof,
                  previous_hash |-> IF previous_hash # <<>> THEN previous_hash
                                    ELSE hash(last_block(self))]
    IN  [self EXCEPT
            !.current_transactions = current_transactions,
            !.chain = Append(@, block),
            !.shared = TRUE]

\* Blockchain.__init__ with time() = t
Construct(t) ==
    new_block([current_transactions |-> <<>>, chain |-> <<>>, nodes |-> {}, shared |-> FALSE],
              GenesisProof, GenesisPreviousHash, t)

\* a registration that forgets the nodes registered before
register_node_overwriting(self, address) == [self EXCEPT !.nodes = {address}]

register_node(self, address) == [self EXCEPT !.nodes = @ \cup {address}]

-----------------------------------------------------------------------------
(* Validation *)

RECURSIVE ValidFrom(_, _, _)
\* the while loop of valid_chain; current_index is 1-based here
ValidFrom(chain, last, current_index) ==
    IF current_index > Len(chain) THEN TRUE
    ELSE LET block == chain[current_index]
             last_block_hash == hash(last)
         IN  IF block.previous_hash # last_block_hash THEN FALSE
             ELSE IF ~valid_proof(last.proof, block.proof, last_block_hash) THEN FALSE
             ELSE ValidFrom(chain, block, current_index + 1)

RECURSIVE RaisesFrom(_, _, _)
\* whether the while loop ends with a KeyError: it reaches a block without
\* 'previous_hash' or 'proof' before it returns
RaisesFrom(chain, last, current_index) ==
    IF current_index > Len(chain) THEN FALSE
    ELSE LET block == chain[current_index]
         IN  IF ~({"previous_hash", "proof"} \subseteq DOMAIN block) THEN TRUE
             ELSE IF block.previous_hash # hash(last) THEN FALSE
             ELSE IF ~valid_proof(last.proof, block.proof, hash(last)) THEN FALSE
             ELSE RaisesFrom(chain, block, current_index + 1)

\* whether valid_chain(chain) raises: chain[0] on an empty list (IndexError), or a
\* block lacking a field (KeyError)
valid_chain_raises(chain) ==
    IF chain = <<>> THEN TRUE ELSE RaisesFrom(chain, chain[1], 2)

RECURSIVE LinksOnlyFrom(_, _, _)
LinksOnlyFrom(chain, last, current_index) ==
    IF current_index > Len(chain) THEN TRUE
    ELSE LET block == chain[current_index]
         IN  IF block.previous_hash # hash(last) THEN FALSE
             ELSE LinksOnlyFrom(chain, block, current_index + 1)

RECURSIVE ProofsOnlyFrom(_, _, _)
ProofsOnlyFrom(chain, last, current_index) ==
    IF current_index > Len(chain) THEN TRUE
    ELSE LET block == chain[current_index]
         IN  IF ~valid_proof(last.proof, block.proof, hash(last)) THEN FALSE
             ELSE ProofsOnlyFrom(chain, block, current_index + 1)

\* a validation that checks the proofs and forgets the links
valid_chain_proofs_only(chain) == ProofsOnlyFrom(chain, chain[1], 2)

\* a validation that checks the links and forgets the proofs
valid_chain_links_only(chain) == LinksOnlyFrom(chain, chain[1], 2)

\* valid_chain of a chain that is not empty (chain[0] raises on an empty one)
valid_chain(chain) == ValidFrom(chain, chain[1], 2)

-----------------------------------------------------------------------------
(* Peers: what requests.get(f'http://{node}/chain') may produce *)

\* a block appended by a node that links and proves it correctly
PeerBlock(prev, t) ==
    [index |-> prev.index + 1,
     created_at |-> t,
     transactions |-> <<Reward>>,
     proof |-> proof_of_work(prev),
     previous_hash |-> hash(prev)]

RECURSIVE LinkedChain(_, _)
LinkedChain(n, t) ==
    IF n = 1 THEN Construct(t).chain
    ELSE LET c == LinkedChain(n - 1, t) IN Append(c, PeerBlock(c[Len(c)], t))

RECURSIVE ExtendedTo(_, _, _)
\* chain c extended to n blocks by a node that links and proves correctly
ExtendedTo(c, n, t) ==
    IF Len(c) >= n THEN c ELSE ExtendedTo(Append(c, PeerBlock(c[Len(c)], t)), n, t)

\* the chain of a node that numbers its blocks from 0: linked and proved correctly
ZeroBasedChain == ExtendedTo(<<[Construct(0).chain[1] EXCEPT !.index = 0]>>, 3, 0)

\* a chain whose last block is a JSON object without 'previous_hash' and 'proof'
FieldlessChain == Append(LinkedChain(2, 0), [index |-> 3])

\* chain with the field of block i set to v (a tampered copy)
Tampered(chain, i, field, v) == [chain EXCEPT ![i] = [@ EXCEPT ![field] = v]]

\* the chains peers hold: two linked and proved ones of equal length, one of them
\* numbered from 0, and one whose last block does not link to its predecessor
ValidPeerChains == {LinkedChain(3, 0), ZeroBasedChain}

InvalidPeerChains ==
    {Tampered(LinkedChain(3, 0), 3, "previous_hash", GenesisPreviousHash)}

\* a response: the call raises (peer unreachable), or it answers with a status code
\* and a body that either has 'length' and 'chain' or lacks them
Response(raises, status_code, wellformed, length, chain) ==
    [raises |-> raises, status_code |-> status_code, wellformed |-> wellformed,
     length |-> length, chain |-> chain]

Unreachable == Response(TRUE, 0, FALSE, 0, <<>>)
ServerError == Response(FALSE, 500, FALSE, 0, <<>>)
Malformed == Response(FALSE, 200, FALSE, 0, <<>>)

\* answers report the number of blocks they hold, or more than they hold
Responses ==
    {Unreachable, ServerError, Malformed}
    \cup {Response(FALSE, 200, TRUE, Len(c), c) : c \in ValidPeerChains \cup InvalidPeerChains}
    \cup {Response(FALSE, 200, TRUE, Len(c) + 2, c) : c \in {<<>>, LinkedChain(1, 0)}}

\* the orders in which `for node in neighbours` may visit a set
Orders(S) ==
    {o \in [1 .. Cardinality(S) -> S] : \A i, j \in 1 .. Cardinality(S) : i # j => o[i] # o[j]}

-----------------------------------------------------------------------------
(* ConsensusResolver *)

RECURSIVE Scan(_, _, _, _)
\* the for loop of resolve_conflicts over the nodes still to visit:
\* [raised, new_chain] when it ends
Scan(order, responses, max_length, new_chain) ==
    IF order = <<>> THEN [raised |-> FALSE, new_chain |-> new_chain]
    ELSE LET response == responses[Head(order)]
             rest == Tail(order)
         IN  IF response.raises THEN [raised |-> TRUE, new_chain |-> new_chain]
             ELSE IF response.status_code # 200 THEN Scan(rest, responses, max_length, new_chain)
             ELSE IF ~response.wellformed THEN [raised |-> TRUE, new_chain |-> new_chain]
             ELSE IF ~(response.length > max_length) THEN Scan(rest, responses, max_length, new_chain)
             ELSE IF valid_chain_raises(response.chain)
                  THEN [raised |-> TRUE, new_chain |-> new_chain]
             ELSE IF valid_chain(response.chain)
                  THEN Scan(rest, responses, response.length, response.chain)
                  ELSE Scan(rest, responses, max_length, new_chain)

RECURSIVE ScanUnvalidated(_, _, _, _)
\* the for loop without the call of valid_chain: [raised, found, new_chain]
ScanUnvalidated(order, responses, max_length, scan) ==
    IF order = <<>> THEN scan
    ELSE LET response == responses[Head(order)]
             rest == Tail(order)
         IN  IF response.raises THEN [scan EXCEPT !.raised = TRUE]
             ELSE IF response.status_code # 200
                  THEN ScanUnvalidated(rest, responses, max_length, scan)
             ELSE IF ~response.wellformed THEN [scan EXCEPT !.raised = TRUE]
             ELSE IF ~(response.length > max_length)
                  THEN ScanUnvalidated(rest, responses, max_length, scan)
             ELSE ScanUnvalidated(rest, responses, response.length,
                        [raised |-> FALSE, found |-> TRUE, new_chain |-> response.chain])

\* a resolve that adopts the chain with the greatest reported length unvalidated
resolve_conflicts_unvalidated(self, order, responses) ==
    LET scan == ScanUnvalidated(order, responses, Len(self.chain),
                                [raised |-> FALSE, found |-> FALSE, new_chain |-> None])
    IN  IF scan.raised THEN [raised |-> TRUE, returns |-> FALSE, self |-> self]
        ELSE IF scan.found
             THEN [raised |-> FALSE, returns |-> TRUE,
                   self |-> [self EXCEPT !.chain = scan.new_chain, !.shared = FALSE]]
             ELSE [raised |-> FALSE, returns |-> FALSE, self |-> self]

\* a resolve that assigns self.chain inside the loop, as soon as a candidate is found
resolve_conflicts_assigning_in_loop(self, order, responses) ==
    LET scan == Scan(order, responses, Len(self.chain), None)
        replaced == [self EXCEPT !.chain = scan.new_chain, !.shared = FALSE]
    IN  IF scan.new_chain # None
        THEN [raised |-> scan.raised, returns |-> ~scan.raised, self |-> replaced]
        ELSE [raised |-> scan.raised, returns |-> FALSE, self |-> self]

\* Blockchain.resolve_conflicts: [raised, returns, self]
resolve_conflicts(self, order, responses) ==
    LET scan == Scan(order, responses, Len(self.chain), None)
    IN  IF scan.raised THEN [raised |-> TRUE, returns |-> FALSE, self |-> self]
        ELSE IF scan.new_chain # None
             THEN [raised |-> FALSE, returns |-> TRUE,
                   self |-> [self EXCEPT !.chain = scan.new_chain, !.shared = FALSE]]
             ELSE [raised |-> FALSE, returns |-> FALSE, self |-> self]

-----------------------------------------------------------------------------
(* Request handlers (app.py) *)

\* a thread that serves no mine request
Idle == [pc |-> "idle"]

Init ==
    /\ \E t \in Times : blockchain = Construct(t)
    /\ promised = <<>>
    /\ resolves = 0
    /\ result = [op |-> "init"]
    /\ requests = [w \in Workers |-> Idle]
    /\ \E t \in Times : peer = Construct(t)

\* request bodies of POST /transactions/new
TransactionBodies ==
    SubmittedTxs \cup {[sender |-> "alice", recipient |-> "bob"]}

\* POST /transactions/new
Submit ==
    \E values \in TransactionBodies :
        IF ~({"sender", "recipient", "amount"} \subseteq DOMAIN values)
        THEN /\ result' = [op |-> "submit", status |-> 400]
             /\ UNCHANGED <<blockchain, promised, resolves, requests, peer>>
        ELSE LET transaction == [sender |-> values.sender, recipient |-> values.recipient,
                                 amount |-> values.amount]
                 returns == new_transaction_returns(blockchain, transaction)
             IN  /\ Len(blockchain.current_transactions) < MaxPool
                 /\ blockchain' = new_transaction(blockchain, transaction)
                 /\ promised' = Append(promised, returns)
                 /\ result' = [op |-> "submit", status |-> 201,
                               transaction |-> transaction, returns |-> returns]
                 /\ UNCHANGED <<resolves, requests, peer>>

\* GET /mine
Mine ==
    \E t \in Times :
        LET last == last_block(blockchain)
            proof == proof_of_work(last)
            rewarded == new_transaction(blockchain, Reward)
            previous_hash == hash(last_block(rewarded))
            minted == new_block(rewarded, proof, previous_hash, t)
        IN  /\ Len(blockchain.chain) < MaxChain
            /\ blockchain' = minted
            /\ promised' = <<>>
            /\ result' = [op |-> "mine", status |-> 200,
                          before |-> blockchain,
                          last_block |-> last,
                          proof |-> proof,
                          pending |-> blockchain.current_transactions,
                          promised |-> promised,
                          block |-> last_block(minted)]
            /\ UNCHANGED <<resolves, requests, peer>>

RECURSIVE RegisterAll(_, _)
\* for node in nodes: blockchain.register_node(node)
RegisterAll(self, nodes) ==
    IF nodes = <<>> THEN self
    ELSE RegisterAll(register_node(self, Head(nodes)), Tail(nodes))

\* request bodies of POST /nodes/register
RegisterBodies ==
    {[other |-> 0]}
    \cup {[nodes |-> <<a>>] : a \in Addrs}
    \cup {[nodes |-> <<a, b>>] : a, b \in Addrs}

\* POST /nodes/register
Register ==
    \E values \in RegisterBodies :
        /\ blockchain' = IF "nodes" \in DOMAIN values
                         THEN RegisterAll(blockchain, values.nodes)
                         ELSE blockchain
        /\ result' = [op |-> "register",
                      status |-> IF "nodes" \in DOMAIN values THEN 201 ELSE 400]
        /\ UNCHANGED <<promised, resolves, requests, peer>>

\* GET /nodes/resolve
Resolve ==
    \E order \in Orders(blockchain.nodes) :
    \E responses \in [blockchain.nodes -> Responses] :
        LET outcome == resolve_conflicts(blockchain, order, responses)
        IN  /\ resolves < MaxResolves
            /\ resolves' = resolves + 1
            /\ blockchain' = outcome.self
            /\ result' = [op |-> "resolve",
                          status |-> IF outcome.raised THEN 500 ELSE 200,
                          before |-> blockchain,
                          order |-> order,
                          responses |-> responses,
                          raised |-> outcome.raised,
                          returns |-> outcome.returns]
            /\ UNCHANGED <<promised, requests, peer>>

Next == Submit \/ Mine \/ Register \/ Resolve

Spec == Init /\ [][Next]_vars

-----------------------------------------------------------------------------
(* GET /mine served by several threads: the statements of mine() interleave, *)
(* since neither app.py nor Blockchain takes a lock.  The local variable     *)
(* last_block of a request refers to the block object at position `at` of    *)
(* the chain, which only grows here.                                         *)

\* last_block = blockchain.last_block
MineSnapshot ==
    \E w \in Workers :
        /\ requests[w].pc = "idle"
        /\ Len(blockchain.chain) + Cardinality({v \in Workers : requests[v].pc # "idle"})
                < MaxChain
        /\ requests' = [requests EXCEPT ![w] = [pc |-> "solve", at |-> Len(blockchain.chain)]]
        /\ UNCHANGED <<blockchain, promised, resolves, result, peer>>

\* proof = blockchain.proof_of_work(last_block)
MineSolve ==
    \E w \in Workers :
        /\ requests[w].pc = "solve"
        /\ requests' = [requests EXCEPT ![w] =
                [pc |-> "reward", at |-> @.at,
                 proof |-> proof_of_work(blockchain.chain[@.at])]]
        /\ UNCHANGED <<blockchain, promised, resolves, result, peer>>

\* blockchain.new_transaction({'sender': '0', ...})
MineReward ==
    \E w \in Workers :
        /\ requests[w].pc = "reward"
        /\ blockchain' = new_transaction(blockchain, Reward)
        /\ requests' = [requests EXCEPT ![w].pc = "hash"]
        /\ UNCHANGED <<promised, resolves, result, peer>>

\* previous_hash = blockchain.hash(last_block)
MineHash ==
    \E w \in Workers :
        /\ requests[w].pc = "hash"
        /\ requests' = [requests EXCEPT ![w] =
                [pc |-> "mint", at |-> @.at, proof |-> @.proof,
                 previous_hash |-> hash(blockchain.chain[@.at])]]
        /\ UNCHANGED <<blockchain, promised, resolves, result, peer>>

\* block = blockchain.new_block(proof, previous_hash) and the response
MineMint ==
    \E w \in Workers, t \in Times :
        LET request == requests[w]
            minted == new_block(blockchain, request.proof, request.previous_hash, t)
        IN  /\ request.pc = "mint"
            /\ blockchain' = minted
            /\ promised' = <<>>
            /\ requests' = [requests EXCEPT ![w] = Idle]
            /\ result' = [op |-> "mine", status |-> 200, worker |-> w,
                          at |-> request.at, block |-> last_block(minted)]
            /\ UNCHANGED <<resolves, peer>>

NextConcurrent == Submit \/ MineSnapshot \/ MineSolve \/ MineReward \/ MineHash \/ MineMint

SpecConcurrent == Init /\ [][NextConcurrent]_vars

-----------------------------------------------------------------------------
(* Two nodes running the program: this node and `peer`, which this node      *)
(* registers under PeerAddr and which answers GET /chain with its own chain. *)

PeerAddr == "p1"

\* GET /chain: the answer of a node that holds engine `self`
full_chain(self) == Response(FALSE, 200, TRUE, Len(self.chain), self.chain)

\* POST /transactions/new served by the peer
PeerSubmit ==
    \E transaction \in SubmittedTxs :
        /\ Len(peer.current_transactions) < MaxPool
        /\ peer' = new_transaction(peer, transaction)
        /\ UNCHANGED <<blockchain, promised, resolves, result, requests>>

\* GET /mine served by the peer
PeerMine ==
    \E t \in Times :
        LET last == last_block(peer)
            proof == proof_of_work(last)
            rewarded == new_transaction(peer, Reward)
            previous_hash == hash(last_block(rewarded))
        IN  /\ Len(peer.chain) < MaxChain
            /\ peer' = new_block(rewarded, proof, previous_hash, t)
            /\ UNCHANGED <<blockchain, promised, resolves, result, requests>>

\* POST /nodes/register with the address of the peer
RegisterPeer ==
    LET values == [nodes |-> <<PeerAddr>>]
    IN  /\ blockchain' = RegisterAll(blockchain, values.nodes)
        /\ result' = [op |-> "register", status |-> 201]
        /\ UNCHANGED <<promised, resolves, requests, peer>>

\* GET /nodes/resolve while every registered node is the peer and is reachable
ResolveFromPeer ==
    \E order \in Orders(blockchain.nodes) :
        LET responses == [node \in blockchain.nodes |-> full_chain(peer)]
            outcome == resolve_conflicts(blockchain, order, responses)
        IN  /\ resolves < MaxResolves
            /\ resolves' = resolves + 1
            /\ blockchain' = outcome.self
            /\ result' = [op |-> "resolve",
                          status |-> IF outcome.raised THEN 500 ELSE 200,
                          before |-> blockchain,
                          order |-> order,
                          responses |-> responses,
                          raised |-> outcome.raised,
                          returns |-> outcome.returns]
            /\ UNCHANGED <<promised, requests, peer>>

NextReplica == Submit \/ Mine \/ PeerSubmit \/ PeerMine \/ RegisterPeer \/ ResolveFromPeer

SpecReplica == Init /\ [][NextReplica]_vars

-----------------------------------------------------------------------------
(* Helpers of the properties *)

Range(seq) == {seq[i] : i \in 1 .. Len(seq)}

\* number of positions of seq holding x
Occurrences(x, seq) == Cardinality({i \in 1 .. Len(seq) : seq[i] = x})

RECURSIVE InBlocks(_, _)
\* number of occurrences of transaction x in the blocks of a chain
InBlocks(x, chain) ==
    IF chain = <<>> THEN 0
    ELSE Occurrences(x, Head(chain).transactions) + InBlocks(x, Tail(chain))

\* the blocks whose transactions were settled before a mint: every block, except
\* that the list of the last block is the pool itself while it is shared
SettledBefore(x, self) ==
    IF self.shared
    THEN InBlocks(x, SubSeq(self.chain, 1, Len(self.chain) - 1))
    ELSE InBlocks(x, self.chain)

\* the peers whose answer to the last resolve is a candidate: status 200, a body with
\* 'length' and 'chain', a reported length above the local length and a valid chain
Offers ==
    {n \in DOMAIN result.responses :
        LET r == result.responses[n]
        IN  /\ ~r.raises
            /\ r.status_code = 200
            /\ r.wellformed
            /\ r.length > Len(result.before.chain)
            /\ ~valid_chain_raises(r.chain)
            /\ valid_chain(r.chain)}

\* the peers whose fetch fails, answers with a non-200 status or has a malformed body
FailingPeers ==
    {n \in DOMAIN result.responses :
        LET r == result.responses[n]
        IN  r.raises \/ r.status_code # 200 \/ ~r.wellformed}

-----------------------------------------------------------------------------
(* Properties *)

\* C1: after mine() the pool is empty and the block it appended holds exactly the
\* transactions that were pending before the mine, in order, plus the reward.
C1_MinedBlockHoldsPending ==
    result.op = "mine" =>
        /\ blockchain.current_transactions = <<>>
        /\ result.block.transactions = Append(result.pending, Reward)

\* C2: submit returns last_block.index + 1, and once the next block is minted the
\* block with that index holds the submitted transaction.
C2_SubmittedLandsInPromisedBlock ==
    /\ (result.op = "submit" /\ result.status = 201) =>
            result.returns = last_block(blockchain).index + 1
    /\ result.op = "mine" =>
            \A i \in 1 .. Len(result.pending) :
                /\ result.promised[i] \in 1 .. Len(blockchain.chain)
                /\ result.pending[i] \in Range(blockchain.chain[result.promised[i]].transactions)

\* C3: a mint loses and duplicates nothing: each transaction pending at the mint is
\* afterwards out of the pool and in the blocks of the chain exactly as often as it
\* was pending, on top of its earlier settled occurrences.
C3_MintLosesNothing ==
    result.op = "mine" =>
        LET pending == Append(result.pending, Reward)
        IN  \A x \in Range(pending) :
                /\ x \notin Range(blockchain.current_transactions)
                /\ InBlocks(x, blockchain.chain)
                        = SettledBefore(x, result.before) + Occurrences(x, pending)

\* C4: resolve replaces the local chain only by a chain with more blocks.
C4_ReplacedOnlyByLonger ==
    result.op = "resolve" =>
        /\ (~result.raised /\ result.returns) =>
                Len(blockchain.chain) > Len(result.before.chain)
        /\ blockchain.chain # result.before.chain =>
                Len(blockchain.chain) > Len(result.before.chain)

\* C5: when some peer offers a valid chain with a reported length above the local
\* length, resolve returns true and the local chain becomes such a chain of the
\* greatest reported length; a chain that is not valid is never adopted.
C5_AdoptsLongestValidOffer ==
    result.op = "resolve" =>
        /\ Offers # {} =>
                /\ ~result.raised
                /\ result.returns
                /\ \E n \in Offers :
                        /\ blockchain.chain = result.responses[n].chain
                        /\ \A m \in Offers :
                                result.responses[m].length <= result.responses[n].length
        /\ blockchain.chain # result.before.chain => valid_chain(blockchain.chain)

\* C6: when no peer offers a valid chain with a reported length above the local
\* length, resolve returns false and changes neither chain, pool nor node set.
C6_NoOfferKeepsEverything ==
    (result.op = "resolve" /\ Offers = {}) =>
        /\ ~result.raised
        /\ ~result.returns
        /\ blockchain = result.before

\* C7: a peer that is unreachable, answers with a non-200 status or a malformed body
\* is skipped: resolve ends with a result, and a valid longer chain that another
\* peer offers is adopted.
C7_FailingPeerIsSkipped ==
    (result.op = "resolve" /\ FailingPeers # {}
        /\ \A n \in DOMAIN result.responses \ FailingPeers :
                ~valid_chain_raises(result.responses[n].chain)) =>
        /\ ~result.raised
        /\ Offers # {} =>
                /\ result.returns
                /\ \E n \in Offers : blockchain.chain = result.responses[n].chain

\* C8: a freshly constructed engine has one block with index 1, proof 100,
\* previous_hash "1" and no transactions, an empty pool and an empty node set.
C8_FreshEngine ==
    result.op = "init" =>
        /\ Len(blockchain.chain) = 1
        /\ blockchain.chain[1].index = 1
        /\ blockchain.chain[1].proof = 100
        /\ blockchain.chain[1].previous_hash = <<"1">>
        /\ blockchain.chain[1].transactions = <<>>
        /\ blockchain.current_transactions = <<>>
        /\ blockchain.nodes = {}

C8_Witness ==
    /\ result.op = "init"
    /\ blockchain.chain # <<>>
    /\ blockchain.chain[1].created_at \in Times
    /\ blockchain.shared

\* the chains valid_chain was asked about in the last resolve, and the local chain
ExaminedChains ==
    {blockchain.chain}
    \cup (IF result.op = "resolve"
          THEN {c \in {result.responses[n].chain : n \in DOMAIN result.responses} :
                    ~valid_chain_raises(c)}
          ELSE {})

\* the values a tampered proof takes
TamperProofs == 0 .. 9

\* the values a tampered previous_hash takes
TamperHashes(chain) ==
    {GenesisPreviousHash, <<>>} \cup {hash(chain[i]) : i \in 1 .. Len(chain)}

\* C9 as stated: on a chain valid_chain accepts, setting the previous_hash or the
\* proof of any one non-genesis block to a different value makes valid_chain
\* return false.
C9_AnyTamperingDetected ==
    \A c \in ExaminedChains :
        valid_chain(c) =>
            \A i \in 2 .. Len(c) :
                /\ \A h \in TamperHashes(c) \ {c[i].previous_hash} :
                        ~valid_chain(Tampered(c, i, "previous_hash", h))
                /\ \A p \in TamperProofs \ {c[i].proof} :
                        ~valid_chain(Tampered(c, i, "proof", p))

\* C9 amended: a different previous_hash is always detected; a different proof is
\* detected except on the last block when the new proof satisfies valid_proof
\* against the block before it, and then valid_chain still returns true.
C9_TamperingDetectedUnlessLastProofVerifies ==
    \A c \in ExaminedChains :
        valid_chain(c) =>
            \A i \in 2 .. Len(c) :
                /\ \A h \in TamperHashes(c) \ {c[i].previous_hash} :
                        ~valid_chain(Tampered(c, i, "previous_hash", h))
                /\ \A p \in TamperProofs \ {c[i].proof} :
                        valid_chain(Tampered(c, i, "proof", p))
                            <=> (i = Len(c) /\ valid_proof(c[i - 1].proof, p, hash(c[i - 1])))

\* a resolve examined a valid chain of three blocks, whose second block is an inner
\* block and whose third is the last, and another proof verifies on each of them
C9_Witness ==
    /\ result.op = "resolve"
    /\ \E c \in ExaminedChains :
            /\ Len(c) = 3
            /\ valid_chain(c)
            /\ \A i \in 2 .. 3 :
                    \E p \in TamperProofs \ {c[i].proof} :
                        valid_proof(c[i - 1].proof, p, hash(c[i - 1]))

\* C10: the proof mine obtained from proof_of_work satisfies valid_proof for the
\* last block, and no smaller non-negative integer does.
C10_SolveReturnsSmallestProof ==
    result.op = "mine" =>
        /\ valid_proof(result.last_block.proof, result.proof, hash(result.last_block))
        /\ \A q \in 0 .. result.proof - 1 :
                ~valid_proof(result.last_block.proof, q, hash(result.last_block))

\* a mine whose search passed over at least one smaller integer
C10_Witness ==
    /\ result.op = "mine"
    /\ result.proof > 0
    /\ result.block.proof = result.proof

\* C11: every non-genesis block of the local chain has previous_hash equal to the
\* hash of the block now standing before it.
C11_BlocksLinkToPredecessor ==
    \A i \in 2 .. Len(blockchain.chain) :
        blockchain.chain[i].previous_hash = hash(blockchain.chain[i - 1])

\* a third block was minted on a second block that had received a submitted
\* transaction and the reward after it was appended
C11_Witness ==
    /\ result.op = "mine"
    /\ Len(blockchain.chain) = 3
    /\ Len(blockchain.chain[2].transactions) = 2
    /\ blockchain.chain[3].previous_hash = hash(blockchain.chain[2])

\* C12: each block's index equals its 1-based position in the local chain.
C12_IndexIsPosition ==
    \A i \in 1 .. Len(blockchain.chain) : blockchain.chain[i].index = i

\* the fields of a block that the chain fixes when the block is appended
Appended(block) ==
    [index |-> block.index, transactions |-> block.transactions,
     proof |-> block.proof, previous_hash |-> block.previous_hash]

\* C13: across a submit, mine or register step every block already in the chain
\* keeps its index, transactions, proof and previous_hash.
C13_NoBlockEditedInPlace ==
    [][result'.op \in {"submit", "mine", "register"} =>
            \A i \in 1 .. Len(blockchain.chain) :
                /\ i <= Len(blockchain'.chain)
                /\ Appended(blockchain'.chain[i]) = Appended(blockchain.chain[i])]_vars

\* C14: a mine request whose last_block is no longer the last block of the chain
\* when it reaches new_block appends nothing.
C14_StaleMineAppendsNothing ==
    [][\A w \in Workers :
            (/\ requests[w].pc = "mint"
             /\ requests'[w].pc = "idle"
             /\ requests[w].at # Len(blockchain.chain))
                => blockchain'.chain = blockchain.chain]_vars

\* C15: the local chain always holds at least one block.
C15_ChainNeverEmpty == Len(blockchain.chain) >= 1

\* a resolve whose first peer answered an empty chain list under a reported length
\* above the local length
C15_Witness ==
    /\ result.op = "resolve"
    /\ result.order # <<>>
    /\ LET r == result.responses[result.order[1]]
       IN  /\ ~r.raises /\ r.status_code = 200 /\ r.wellformed
           /\ r.chain = <<>>
           /\ r.length > Len(result.before.chain)
    /\ Len(blockchain.chain) >= 1

\* C16: in every state the engine reaches, registering an address changes neither
\* the chain nor the pool, registering a registered address changes nothing at all,
\* and registering an address twice leaves it in the node set once.
C16_RegisterIsIdempotent ==
    \A address \in Addrs :
        LET once == register_node(blockchain, address)
            twice == RegisterAll(blockchain, <<address, address>>)
        IN  /\ once.chain = blockchain.chain
            /\ once.current_transactions = blockchain.current_transactions
            /\ once.nodes = blockchain.nodes \cup {address}
            /\ twice = once
            /\ Cardinality(twice.nodes) = Cardinality(blockchain.nodes \ {address}) + 1
            /\ (address \in blockchain.nodes => once = blockchain)

\* a register request served next to a mined block and a pending transaction, after
\* which both addresses are registered, so that registering either again is a repeat
C16_Witness ==
    /\ result.op = "register"
    /\ result.status = 201
    /\ blockchain.nodes = Addrs
    /\ blockchain.current_transactions # <<>>
    /\ Len(blockchain.chain) > 1

\* C17: as long as the chain was built by this engine's own submit and mine
\* requests, valid_chain accepts it.
C17_OwnChainIsValid ==
    resolves = 0 => valid_chain(blockchain.chain)

\* C18: a resolve of a node that has the peer registered, while the peer holds more
\* blocks than the node, reports a replacement and leaves the node with the peer's
\* chain.
C18_LongerHonestChainIsAdopted ==
    (/\ result.op = "resolve"
     /\ PeerAddr \in result.before.nodes
     /\ Len(peer.chain) > Len(result.before.chain))
        => (result.returns /\ blockchain.chain = peer.chain)

\* what resolve_conflicts does to the chain and what it answers
Outcome(self, order, responses) ==
    LET outcome == resolve_conflicts(self, order, responses)
    IN  [raised |-> outcome.raised, returns |-> outcome.returns, chain |-> outcome.self.chain]

\* C19: for the local chain and the responses of a resolve, every order of
\* scanning the peers gives the same flag and the same resulting chain; stated for
\* the resolves in which every peer answers a chain that valid_chain can examine.
C19_ScanOrderIsIrrelevant ==
    (/\ result.op = "resolve"
     /\ FailingPeers = {}
     /\ \A n \in result.before.nodes : ~valid_chain_raises(result.responses[n].chain))
        =>
        \A o1, o2 \in Orders(result.before.nodes) :
            Outcome(result.before, o1, result.responses)
                = Outcome(result.before, o2, result.responses)

\* the answers of a resolve in which the peer scanned last sends a block without
\* fields under the greatest reported length and the others a valid longer chain
FieldlessLast(self, order) ==
    [node \in self.nodes |->
        IF node = order[Len(order)]
        THEN Response(FALSE, 200, TRUE, Len(self.chain) + 2, FieldlessChain)
        ELSE Response(FALSE, 200, TRUE, Len(self.chain) + 1, LinkedChain(3, 0))]

\* C20: a resolve that ends with an error leaves the chain, the pool and the node
\* set as they were before the call; so does, from every state the engine reaches,
\* a resolve that fails on a block without fields.
C20_FailedResolveChangesNothing ==
    /\ (result.op = "resolve" /\ result.raised) => blockchain = result.before
    /\ \A order \in Orders(blockchain.nodes) \ {<<>>} :
            LET outcome == resolve_conflicts(blockchain, order, FieldlessLast(blockchain, order))
            IN  outcome.raised /\ outcome.self = blockchain

\* a resolve that failed at its second peer after the first one had offered a
\* valid longer chain
C20_Witness ==
    /\ result.op = "resolve"
    /\ result.raised
    /\ Len(result.order) = 2
    /\ result.order[1] \in Offers
    /\ LET r == result.responses[result.order[2]]
       IN  \/ r.raises
           \/ (r.status_code = 200 /\ ~r.wellformed)
           \/ (r.status_code = 200 /\ r.wellformed /\ valid_chain_raises(r.chain)
                    /\ r.length > result.responses[result.order[1]].length)
    /\ blockchain = result.before

====
